---- MODULE Spec2Model ----
(***************************************************************************)
(* Billing-state reconciliation core of src/libs/supabaseAdmin.ts:         *)
(* upsertProductRecord, upsertPriceRecord, createOrRetrieveCustomer,       *)
(* copyBillingDetailsToCustomer and manageSubscriptionStatusChange, run    *)
(* against a Supabase store (tables products, prices, customers,           *)
(* subscriptions, users) and the Stripe provider (customers and            *)
(* subscriptions).                                                         *)
(*                                                                         *)
(* A table is a sequence of rows.  A nullable string is the string or      *)
(* Null; a nullable number or object is <<>> (null) or <<v>>.              *)
(***************************************************************************)
EXTENDS Integers, Sequences, FiniteSets, TLC

MaxCalls == 2
NumProcs == 2

Null == "null"

Procs == 1..NumProcs
LocalUsers == {"u1"}
SubscriptionIds == {"sub_1"}

(***************************************************************************)
(* Generic sequence helpers.                                               *)
(***************************************************************************)
RECURSIVE SelectRows(_, _, _)
SelectRows(table, col, val) ==
  IF table = <<>> THEN <<>>
  ELSE IF Head(table)[col] = val
       THEN <<Head(table)>> \o SelectRows(Tail(table), col, val)
       ELSE SelectRows(Tail(table), col, val)

HasRow(table, id) == \E k \in 1..Len(table) : table[k].id = id

\* JavaScript truthiness of a nullable string.
Truthy(s) == s # Null /\ s # ""

(***************************************************************************)
(* Supabase query builders.                                                *)
(***************************************************************************)
\* .select(...).single() without the .eq filter.
SingleUnfiltered(table, col, val) ==
  IF Len(table) = 1 THEN [data |-> table, error |-> FALSE]
                    ELSE [data |-> <<>>, error |-> TRUE]

\* .select(...).eq(col, val).single(): an error unless exactly one row matches.
Single(table, col, val) ==
  LET m == SelectRows(table, col, val)
  IN  IF Len(m) = 1 THEN [data |-> m, error |-> FALSE]
                    ELSE [data |-> <<>>, error |-> TRUE]

\* A request body is the row plus `omitted`, the keys whose value is undefined.
\* The body is an array, so the request names every key of the row as a column
\* and a key missing from the JSON is stored as null, on insert and on conflict.
DefaultRow(new) == [new EXCEPT !.omitted = {}]

\* An upsert that sets only the keys present in the JSON and keeps the others.
MergeRowKeep(old, new) ==
  [f \in DOMAIN new |->
     IF f = "omitted" THEN {}
     ELSE IF f \in new.omitted THEN old[f] ELSE new[f]]

\* The row that replaces `old` on a primary-key conflict.
MergeRow(old, new) == DefaultRow(new)

\* An insert into a table without a primary key.
UpsertAppend(table, row) == Append(table, DefaultRow(row))

\* .upsert([row], { ignoreDuplicates: true })
UpsertIgnoreDuplicates(table, row) ==
  IF HasRow(table, row.id) THEN table ELSE Append(table, DefaultRow(row))

\* .delete() of the table's rows followed by .insert([row])
UpsertAfterDelete(table, row) == <<DefaultRow(row)>>

\* .upsert([row]): insert, or replace the row with the same primary key.
Upsert(table, row) ==
  IF HasRow(table, row.id)
  THEN [k \in 1..Len(table) |->
          IF table[k].id = row.id THEN MergeRow(table[k], row) ELSE table[k]]
  ELSE Append(table, DefaultRow(row))

\* An insert into a table without a primary key.
InsertUnkeyed(table, row) ==
  [table |-> Append(table, row), error |-> FALSE]

\* .insert([row]): fails on a primary-key conflict.
Insert(table, row) ==
  IF HasRow(table, row.id)
  THEN [table |-> table, error |-> TRUE]
  ELSE [table |-> Append(table, row), error |-> FALSE]

\* .update(values).eq("id", id): rewrites the matching rows, if any.
Update(table, id, values) ==
  [k \in 1..Len(table) |->
     IF table[k].id = id
     THEN [f \in DOMAIN table[k] |->
             IF f \in DOMAIN values THEN values[f] ELSE table[k][f]]
     ELSE table[k]]

(***************************************************************************)
(* Catalog Mirror.                                                         *)
(***************************************************************************)
StripeProducts ==
  { [id |-> "prod_1", active |-> TRUE, name |-> "Premium",
     description |-> Null, images |-> <<>>, metadata |-> "m1"],
    [id |-> "prod_1", active |-> FALSE, name |-> "Premium",
     description |-> "plan", images |-> <<"img_a", "img_b">>, metadata |-> "m1"] }

StripePrices ==
  { [id |-> "price_1", product |-> [kind |-> "string", id |-> "prod_1"],
     active |-> TRUE, currency |-> "usd", nickname |-> Null, type |-> "recurring",
     unit_amount |-> <<999>>,
     recurring |-> <<[interval |-> "month", interval_count |-> 1,
                      trial_period_days |-> <<>>]>>,
     metadata |-> "m1"],
    [id |-> "price_1", product |-> [kind |-> "object", id |-> "prod_1"],
     active |-> TRUE, currency |-> "usd", nickname |-> "once", type |-> "one_time",
     unit_amount |-> <<>>, recurring |-> <<>>, metadata |-> "m1"] }

\* lines 24-31
ProductData(product) ==
  [id |-> product.id,
   active |-> product.active,
   name |-> product.name,
   description |-> product.description,
   image |-> IF Len(product.images) > 0 THEN product.images[1] ELSE Null,
   metadata |-> product.metadata,
   omitted |-> IF product.description = Null THEN {"description"} ELSE {}]

\* The price data with the id of an embedded product taken as the reference.
PriceDataEmbeddedId(price) ==
  [id |-> price.id,
   product_id |-> price.product.id,
   active |-> price.active,
   currency |-> price.currency,
   description |-> price.nickname,
   type |-> price.type,
   unit_amount |-> price.unit_amount,
   interval |-> IF price.recurring = <<>> THEN Null
                ELSE price.recurring[1].interval,
   interval_count |-> IF price.recurring = <<>> THEN <<>>
                      ELSE <<price.recurring[1].interval_count>>,
   trial_period_days |-> IF price.recurring = <<>> THEN <<>>
                         ELSE price.recurring[1].trial_period_days,
   metadata |-> price.metadata,
   omitted |-> (IF price.nickname = Null THEN {"description"} ELSE {})
               \cup (IF price.unit_amount = <<>> THEN {"unit_amount"} ELSE {})
               \cup (IF price.recurring = <<>>
                     THEN {"interval", "interval_count", "trial_period_days"}
                     ELSE {})]

\* lines 53-65
PriceData(price) ==
  [id |-> price.id,
   product_id |-> IF price.product.kind = "string" THEN price.product.id ELSE "",
   active |-> price.active,
   currency |-> price.currency,
   description |-> price.nickname,
   type |-> price.type,
   unit_amount |-> price.unit_amount,
   interval |-> IF price.recurring = <<>> THEN Null
                ELSE price.recurring[1].interval,
   interval_count |-> IF price.recurring = <<>> THEN <<>>
                      ELSE <<price.recurring[1].interval_count>>,
   trial_period_days |-> IF price.recurring = <<>> THEN <<>>
                         ELSE price.recurring[1].trial_period_days,
   metadata |-> price.metadata,
   omitted |-> (IF price.nickname = Null THEN {"description"} ELSE {})
               \cup (IF price.unit_amount = <<>> THEN {"unit_amount"} ELSE {})
               \cup (IF price.recurring = <<>>
                     THEN {"interval", "interval_count", "trial_period_days"}
                     ELSE {})]

(***************************************************************************)
(* Provider-side data: payment methods and subscription objects as         *)
(* stripe.subscriptions.retrieve returns them, default_payment_method      *)
(* expanded.                                                               *)
(***************************************************************************)
Address == [city |-> "Oslo"]

FullDetails == [name |-> "Ann", phone |-> "555", address |-> <<Address>>]

PaymentMethod(customer, details) ==
  [customer |-> customer, type |-> "card", card |-> "visa4242",
   billing_details |-> details]

\* The states the provider reports for a subscription, by version.
SubscriptionVersions == {"v1", "v2", "v3", "v4", "v5"}

BaseSubscription(id, customer) ==
  [id |-> id, customer |-> customer, metadata |-> "m1",
   status |-> "trialing", price |-> "price_1", quantity |-> 1,
   cancel_at_period_end |-> FALSE,
   cancel_at |-> <<>>, canceled_at |-> <<>>,
   current_period_start |-> 100, current_period_end |-> 200,
   created |-> 100, ended_at |-> <<>>,
   trial_start |-> <<100>>, trial_end |-> <<86500>>,
   default_payment_method |-> <<PaymentMethod(customer, FullDetails)>>]

StripeSubscription(id, customer, version) ==
  LET base == BaseSubscription(id, customer)
  IN  CASE version = "v1" -> base
        [] version = "v2" ->
             [base EXCEPT !.status = "active", !.quantity = 2,
                !.cancel_at_period_end = TRUE, !.cancel_at = <<0>>,
                !.current_period_start = 200, !.current_period_end = 300,
                !.trial_start = <<>>, !.trial_end = <<>>,
                !.default_payment_method =
                   <<PaymentMethod(customer, [FullDetails EXCEPT !.phone = Null])>>]
        [] version = "v3" ->
             [base EXCEPT !.status = "canceled",
                !.canceled_at = <<250>>, !.ended_at = <<300>>,
                !.trial_start = <<>>, !.trial_end = <<>>,
                !.default_payment_method = <<>>]
        [] version = "v4" ->
             [base EXCEPT !.status = "past_due",
                !.default_payment_method =
                   <<PaymentMethod(customer, [FullDetails EXCEPT !.name = ""])>>]
        [] OTHER ->
             [base EXCEPT !.status = "unpaid",
                !.default_payment_method =
                   <<PaymentMethod(customer, [FullDetails EXCEPT !.address = <<>>])>>]

\* "cus_" followed by a serial number: the id the provider issues.
CustomerId(n) == "cus_" \o ToString(n)

\* A provider customer id no customer carries.
UnknownCustomer == "cus_x"

(***************************************************************************)
(* helpers.toDateTime followed by Date.toISOString: epoch seconds to the   *)
(* day and the second of the day of the instant.                           *)
(***************************************************************************)
toDateTime(secs) == [ms |-> secs * 1000]

toISOString(date) ==
  ToString((date.ms \div 1000) \div 86400) \o "T"
    \o ToString((date.ms \div 1000) % 86400) \o "Z"

\* `t ? toDateTime(t).toISOString() : null` on a nullable number (lines 193-200)
NullableTimestamp(t) ==
  IF t # <<>> /\ t[1] # 0 THEN toISOString(toDateTime(t[1])) ELSE Null

\* The row keyed to the provider's customer instead of the local user.
SubscriptionDataByCustomer(subscription, uuid) ==
  [id |-> subscription.id,
   user_id |-> subscription.customer,
   metadata |-> subscription.metadata,
   status |-> subscription.status,
   price_id |-> subscription.price,
   quantity |-> subscription.quantity,
   cancel_at_period_end |-> subscription.cancel_at_period_end,
   cancel_at |-> NullableTimestamp(subscription.cancel_at),
   canceled_at |-> NullableTimestamp(subscription.canceled_at),
   current_period_start |-> toISOString(toDateTime(subscription.current_period_start)),
   current_period_end |-> toISOString(toDateTime(subscription.current_period_end)),
   created |-> toISOString(toDateTime(subscription.created)),
   ended_at |-> NullableTimestamp(subscription.ended_at),
   trial_start |-> NullableTimestamp(subscription.trial_start),
   trial_end |-> NullableTimestamp(subscription.trial_end),
   omitted |-> {}]

\* lines 183-201
SubscriptionData(subscription, uuid) ==
  [id |-> subscription.id,
   user_id |-> uuid,
   metadata |-> subscription.metadata,
   status |-> subscription.status,
   price_id |-> subscription.price,
   quantity |-> subscription.quantity,
   cancel_at_period_end |-> subscription.cancel_at_period_end,
   cancel_at |-> NullableTimestamp(subscription.cancel_at),
   canceled_at |-> NullableTimestamp(subscription.canceled_at),
   current_period_start |-> toISOString(toDateTime(subscription.current_period_start)),
   current_period_end |-> toISOString(toDateTime(subscription.current_period_end)),
   created |-> toISOString(toDateTime(subscription.created)),
   ended_at |-> NullableTimestamp(subscription.ended_at),
   trial_start |-> NullableTimestamp(subscription.trial_start),
   trial_end |-> NullableTimestamp(subscription.trial_end),
   omitted |-> {}]

(***************************************************************************)
(* Customer Identity Resolver and Billing Detail Propagator, pure parts.   *)
(***************************************************************************)
\* line 95: `error || !data?.stripe_customer_id`
NeedsCustomer(res) ==
  res.error \/ res.data = <<>> \/ ~Truthy(res.data[1].stripe_customer_id)

\* lines 96-102: the email key is set only when the email is non-empty.
CustomerData(uuid, email) ==
  [metadata |-> [supabaseUUID |-> uuid],
   email |-> IF Truthy(email) THEN email ELSE Null]

\* stripe.customers.create deduplicated on metadata.supabaseUUID.
CustomersCreateOnce(custs, customerData) ==
  IF \E k \in 1..Len(custs) : custs[k].metadata = customerData.metadata
  THEN custs
  ELSE Append(custs, [id |-> CustomerId(Len(custs) + 1),
                      metadata |-> customerData.metadata,
                      email |-> customerData.email,
                      name |-> Null, phone |-> Null, address |-> <<>>])

\* stripe.customers.create: a fresh id for every call.
CustomersCreate(custs, customerData) ==
  Append(custs, [id |-> CustomerId(Len(custs) + 1),
                 metadata |-> customerData.metadata,
                 email |-> customerData.email,
                 name |-> Null, phone |-> Null, address |-> <<>>])

\* stripe.customers.update(customer, {name, phone, address})
CustomersUpdate(custs, customer, details) ==
  [k \in 1..Len(custs) |->
     IF custs[k].id = customer
     THEN [custs[k] EXCEPT !.name = details.name, !.phone = details.phone,
                           !.address = details.address]
     ELSE custs[k]]

\* `!name || !address`
MissingNameOrAddress(details) ==
  ~Truthy(details.name) \/ details.address = <<>>

\* line 136: `!name || !phone || !address`
MissingBillingDetails(details) ==
  ~Truthy(details.name) \/ ~Truthy(details.phone) \/ details.address = <<>>

\* lines 142-145
BillingValues(payment_method) ==
  [billing_address |-> payment_method.billing_details.address,
   payment_method |-> <<payment_method[payment_method.type]>>]

\* The guard of line 211 without its createAction conjunct.
CopiesBillingDetailsOnEveryEvent(createAction, subscription, uuid) ==
  subscription.default_payment_method # <<>> /\ Truthy(uuid)

\* line 211: `createAction && subscription.default_payment_method && uuid`
CopiesBillingDetails(createAction, subscription, uuid) ==
  createAction /\ subscription.default_payment_method # <<>> /\ Truthy(uuid)

VARIABLES products, prices, customers, subscriptions, users,
          stripeCustomers, stripeSubscriptions, calls, started,
          retrieved, written, lastOp

vars == <<products, prices, customers, subscriptions, users,
          stripeCustomers, stripeSubscriptions, calls, started,
          retrieved, written, lastOp>>

\* The local store and the provider.
Store == <<products, prices, customers, subscriptions, users>>
Provider == <<stripeCustomers, stripeSubscriptions>>

RECURSIVE SeqOf(_)
SeqOf(set) ==
  IF set = {} THEN <<>>
  ELSE LET x == CHOOSE y \in set : TRUE IN <<x>> \o SeqOf(set \ {x})

UserRow(uuid) == [id |-> uuid, billing_address |-> <<>>, payment_method |-> <<>>]

IdleCall ==
  [op |-> "none", pc |-> "idle", args |-> <<>>,
   data |-> <<>>, customer |-> Null, uuid |-> Null, subscription |-> <<>>,
   result |-> Null, error |-> Null,
   issued |-> {}, wrote |-> {}, faulted |-> {}, fetchNo |-> 0, hadId |-> Null,
   before |-> <<>>]

NoOp == [op |-> "none", args |-> <<>>, store |-> <<>>]

\* The store as a deployment finds it: no Customer row yet, a row whose
\* stripe_customer_id is still null, or users resolved by earlier invocations.
InitialCustomers ==
  {<<>>}
  \cup {<<[id |-> u, stripe_customer_id |-> Null]>> : u \in LocalUsers}
  \cup {<<[id |-> u, stripe_customer_id |-> CustomerId(1)]>> : u \in LocalUsers}

Init ==
  /\ products = <<>>
  /\ prices = <<>>
  /\ customers \in InitialCustomers
  /\ subscriptions = <<>>
  /\ users = [k \in 1..Cardinality(LocalUsers) |-> UserRow(SeqOf(LocalUsers)[k])]
  /\ stripeCustomers =
       IF customers # <<>> /\ Truthy(customers[1].stripe_customer_id)
       THEN CustomersCreate(<<>>, CustomerData(customers[1].id, ""))
       ELSE <<>>
  /\ stripeSubscriptions = [s \in SubscriptionIds |-> <<>>]
  /\ calls = [i \in Procs |-> IdleCall]
  /\ started = 0
  /\ retrieved = 0
  /\ written = [s \in SubscriptionIds |-> 0]
  /\ lastOp = NoOp

(***************************************************************************)
(* Invocations.  An invocation suspends at its awaits only: each action    *)
(* below is one awaited call together with the code that runs up to the    *)
(* next await.  `fault` is the outcome of the awaited call: a storage or   *)
(* provider failure that leaves the callee unchanged.                      *)
(***************************************************************************)
AllIdle == \A i \in Procs : calls[i].pc = "idle"

\* An invocation takes the first free slot.  `before` is <<>> or <<s>>, s the
\* store and the provider at the call.
Begin(i, op, args, before) ==
  /\ calls[i].pc = "idle"
  /\ \A j \in Procs : j < i => calls[j].pc # "idle"
  /\ started < MaxCalls
  /\ started' = started + 1
  /\ calls' = [calls EXCEPT ![i] =
       [IdleCall EXCEPT !.op = op, !.pc = "start", !.args = args,
                        !.before = before]]

Mark(c, call, fault) ==
  [c EXCEPT !.issued = @ \cup {call},
            !.faulted = IF fault THEN @ \cup {call} ELSE @]

Throw(c, call) == [c EXCEPT !.pc = "failed", !.error = call]

\* The stripe_customer_id stored for a user, Null if none.
StoredCustomerId(table, uuid) ==
  LET m == SelectRows(table, "id", uuid)
  IN  IF Len(m) = 1 THEN m[1].stripe_customer_id ELSE Null

(***************************************************************************)
(* upsertProductRecord (lines 23-42), upsertPriceRecord (lines 52-76)      *)
(***************************************************************************)
CallUpsertProductRecord(i, product, before) ==
  /\ Begin(i, "upsertProductRecord", [product |-> product], before)
  /\ UNCHANGED <<Store, Provider, retrieved, written, lastOp>>

ProductsUpsert(i, fault) ==
  LET c == Mark(calls[i], "products.upsert", fault) IN
  /\ calls[i].op = "upsertProductRecord" /\ calls[i].pc = "start"
  /\ IF fault
     THEN /\ calls' = [calls EXCEPT ![i] = Throw(c, "products.upsert")]
          /\ UNCHANGED products
     ELSE /\ products' = Upsert(products, ProductData(c.args.product))
          /\ calls' = [calls EXCEPT ![i] =
               [c EXCEPT !.pc = "done", !.wrote = @ \cup {"products"}]]
  /\ UNCHANGED <<prices, customers, subscriptions, users, Provider,
                 started, retrieved, written, lastOp>>

CallUpsertPriceRecord(i, price, before) ==
  /\ Begin(i, "upsertPriceRecord", [price |-> price], before)
  /\ UNCHANGED <<Store, Provider, retrieved, written, lastOp>>

PricesUpsert(i, fault) ==
  LET c == Mark(calls[i], "prices.upsert", fault) IN
  /\ calls[i].op = "upsertPriceRecord" /\ calls[i].pc = "start"
  /\ IF fault
     THEN /\ calls' = [calls EXCEPT ![i] = Throw(c, "prices.upsert")]
          /\ UNCHANGED prices
     ELSE /\ prices' = Upsert(prices, PriceData(c.args.price))
          /\ calls' = [calls EXCEPT ![i] =
               [c EXCEPT !.pc = "done", !.wrote = @ \cup {"prices"}]]
  /\ UNCHANGED <<products, customers, subscriptions, users, Provider,
                 started, retrieved, written, lastOp>>

(***************************************************************************)
(* createOrRetrieveCustomer (lines 87-118)                                 *)
(***************************************************************************)
CallCreateOrRetrieveCustomer(i, email, uuid, before) ==
  /\ Begin(i, "createOrRetrieveCustomer", [email |-> email, uuid |-> uuid], before)
  /\ UNCHANGED <<Store, Provider, retrieved, written, lastOp>>

\* lines 89-95 and 117
CustomersSelect(i, fault) ==
  LET c   == Mark(calls[i], "customers.select", fault)
      res == IF fault THEN [data |-> <<>>, error |-> TRUE]
             ELSE Single(customers, "id", c.args.uuid)
  IN
  /\ calls[i].op = "createOrRetrieveCustomer" /\ calls[i].pc = "start"
  /\ calls' = [calls EXCEPT ![i] =
       IF NeedsCustomer(res)
       THEN [c EXCEPT !.pc = "create",
                      !.hadId = StoredCustomerId(customers, c.args.uuid)]
       ELSE [c EXCEPT !.pc = "done",
                      !.hadId = StoredCustomerId(customers, c.args.uuid),
                      !.result = res.data[1].stripe_customer_id]]
  /\ UNCHANGED <<Store, Provider, started, retrieved, written, lastOp>>

\* lines 96-104
StripeCustomersCreate(i, fault) ==
  LET c == Mark(calls[i], "stripe.customers.create", fault) IN
  /\ calls[i].op = "createOrRetrieveCustomer" /\ calls[i].pc = "create"
  /\ IF fault
     THEN /\ calls' = [calls EXCEPT ![i] = Throw(c, "stripe.customers.create")]
          /\ UNCHANGED stripeCustomers
     ELSE LET custs == CustomersCreate(stripeCustomers,
                         CustomerData(c.args.uuid, c.args.email))
          IN  /\ stripeCustomers' = custs
              /\ calls' = [calls EXCEPT ![i] =
                   [c EXCEPT !.pc = "insert",
                             !.customer = custs[Len(custs)].id,
                             !.wrote = @ \cup {"stripe.customers"}]]
  /\ UNCHANGED <<Store, stripeSubscriptions, started, retrieved, written, lastOp>>

\* lines 105-115
CustomersInsert(i, fault) ==
  LET c == Mark(calls[i], "customers.insert", fault)
      r == IF fault THEN [table |-> customers, error |-> TRUE]
           ELSE Insert(customers, [id |-> c.args.uuid,
                                   stripe_customer_id |-> c.customer])
  IN
  /\ calls[i].op = "createOrRetrieveCustomer" /\ calls[i].pc = "insert"
  /\ customers' = r.table
  /\ calls' = [calls EXCEPT ![i] =
       IF r.error THEN Throw(c, "customers.insert")
       ELSE [c EXCEPT !.pc = "done", !.result = c.customer,
                      !.wrote = @ \cup {"customers"}]]
  /\ UNCHANGED <<products, prices, subscriptions, users, Provider,
                 started, retrieved, written, lastOp>>

(***************************************************************************)
(* manageSubscriptionStatusChange (lines 161-217) and, called from it,     *)
(* copyBillingDetailsToCustomer (lines 130-149)                            *)
(***************************************************************************)
CallManageSubscriptionStatusChange(i, subscriptionId, customerId, createAction, before) ==
  /\ Begin(i, "manageSubscriptionStatusChange",
           [subscriptionId |-> subscriptionId, customerId |-> customerId,
            createAction |-> createAction], before)
  /\ UNCHANGED <<Store, Provider, retrieved, written, lastOp>>

\* The lookup followed by an upsert of a provisional row, before the fetch.
CustomersSelectThenStub(i, fault) ==
  LET c   == Mark(calls[i], "customers.select", fault)
      res == IF fault THEN [data |-> <<>>, error |-> TRUE]
             ELSE Single(customers, "stripe_customer_id", c.args.customerId)
  IN
  /\ calls[i].op = "manageSubscriptionStatusChange" /\ calls[i].pc = "start"
  /\ IF res.error
     THEN /\ calls' = [calls EXCEPT ![i] = Throw(c, "customers.select")]
          /\ UNCHANGED subscriptions
     ELSE /\ calls' = [calls EXCEPT ![i] =
               [c EXCEPT !.pc = "retrieve", !.uuid = res.data[1].id,
                         !.wrote = @ \cup {"subscriptions"}]]
          /\ subscriptions' = Upsert(subscriptions,
               SubscriptionData(
                 [BaseSubscription(c.args.subscriptionId, c.args.customerId)
                    EXCEPT !.status = "incomplete"],
                 res.data[1].id))
  /\ UNCHANGED <<products, prices, customers, users, Provider,
                 started, retrieved, written, lastOp>>

\* lines 166-174
CustomersSelectByStripeId(i, fault) ==
  LET c   == Mark(calls[i], "customers.select", fault)
      res == IF fault THEN [data |-> <<>>, error |-> TRUE]
             ELSE Single(customers, "stripe_customer_id", c.args.customerId)
  IN
  /\ calls[i].op = "manageSubscriptionStatusChange" /\ calls[i].pc = "start"
  /\ calls' = [calls EXCEPT ![i] =
       IF res.error THEN Throw(c, "customers.select")
       ELSE [c EXCEPT !.pc = "retrieve", !.uuid = res.data[1].id]]
  /\ UNCHANGED <<Store, Provider, started, retrieved, written, lastOp>>

\* lines 176-181
StripeSubscriptionsRetrieve(i, fault) ==
  LET c  == Mark(calls[i], "stripe.subscriptions.retrieve", fault)
      st == stripeSubscriptions[c.args.subscriptionId]
  IN
  /\ calls[i].op = "manageSubscriptionStatusChange" /\ calls[i].pc = "retrieve"
  /\ IF fault \/ st = <<>>
     THEN /\ calls' = [calls EXCEPT ![i] = Throw(c, "stripe.subscriptions.retrieve")]
          /\ UNCHANGED retrieved
     ELSE /\ retrieved' = retrieved + 1
          /\ calls' = [calls EXCEPT ![i] =
               [c EXCEPT !.pc = "upsert", !.fetchNo = retrieved + 1,
                  !.subscription =
                     <<StripeSubscription(c.args.subscriptionId,
                                          st[1].customer, st[1].version)>>]]
  /\ UNCHANGED <<Store, Provider, started, written, lastOp>>

\* lines 183-216, and lines 134-136 of copyBillingDetailsToCustomer
SubscriptionsUpsert(i, fault) ==
  LET c   == Mark(calls[i], "subscriptions.upsert", fault)
      sub == c.subscription[1]
  IN
  /\ calls[i].op = "manageSubscriptionStatusChange" /\ calls[i].pc = "upsert"
  /\ IF fault
     THEN /\ calls' = [calls EXCEPT ![i] = Throw(c, "subscriptions.upsert")]
          /\ UNCHANGED <<subscriptions, written>>
     ELSE /\ subscriptions' = Upsert(subscriptions, SubscriptionData(sub, c.uuid))
          /\ written' = [written EXCEPT ![sub.id] = c.fetchNo]
          /\ calls' = [calls EXCEPT ![i] =
               [c EXCEPT !.wrote = @ \cup {"subscriptions"},
                  !.pc = IF /\ CopiesBillingDetails(c.args.createAction, sub, c.uuid)
                            /\ ~MissingBillingDetails(
                                  sub.default_payment_method[1].billing_details)
                         THEN "copy" ELSE "done"]]
  /\ UNCHANGED <<products, prices, customers, users, Provider,
                 started, retrieved, lastOp>>

\* line 139; the provider rejects an update of a customer it does not have.
StripeCustomersUpdate(i, fault) ==
  LET c  == Mark(calls[i], "stripe.customers.update", fault)
      pm == c.subscription[1].default_payment_method[1]
  IN
  /\ calls[i].op = "manageSubscriptionStatusChange" /\ calls[i].pc = "copy"
  /\ IF fault \/ ~HasRow(stripeCustomers, pm.customer)
     THEN /\ calls' = [calls EXCEPT ![i] = Throw(c, "stripe.customers.update")]
          /\ UNCHANGED stripeCustomers
     ELSE /\ stripeCustomers' =
               CustomersUpdate(stripeCustomers, pm.customer, pm.billing_details)
          /\ calls' = [calls EXCEPT ![i] =
               [c EXCEPT !.pc = "update", !.wrote = @ \cup {"stripe.customers"}]]
  /\ UNCHANGED <<Store, stripeSubscriptions, started, retrieved, written, lastOp>>

\* The users update undoing the provider customer update when it fails.
UsersUpdateWithRollback(i, fault) ==
  LET c  == Mark(calls[i], "users.update", fault)
      pm == c.subscription[1].default_payment_method[1]
  IN
  /\ calls[i].op = "manageSubscriptionStatusChange" /\ calls[i].pc = "update"
  /\ IF fault
     THEN /\ calls' = [calls EXCEPT ![i] = Throw(c, "users.update")]
          /\ stripeCustomers' =
               CustomersUpdate(stripeCustomers, pm.customer,
                               [name |-> Null, phone |-> Null, address |-> <<>>])
          /\ UNCHANGED users
     ELSE /\ users' = Update(users, c.uuid, BillingValues(pm))
          /\ calls' = [calls EXCEPT ![i] =
               [c EXCEPT !.pc = "done", !.wrote = @ \cup {"users"}]]
          /\ UNCHANGED stripeCustomers
  /\ UNCHANGED <<products, prices, customers, subscriptions, stripeSubscriptions,
                 started, retrieved, written, lastOp>>

\* lines 140-148
UsersUpdate(i, fault) ==
  LET c  == Mark(calls[i], "users.update", fault)
      pm == c.subscription[1].default_payment_method[1]
  IN
  /\ calls[i].op = "manageSubscriptionStatusChange" /\ calls[i].pc = "update"
  /\ IF fault
     THEN /\ calls' = [calls EXCEPT ![i] = Throw(c, "users.update")]
          /\ UNCHANGED users
     ELSE /\ users' = Update(users, c.uuid, BillingValues(pm))
          /\ calls' = [calls EXCEPT ![i] =
               [c EXCEPT !.pc = "done", !.wrote = @ \cup {"users"}]]
  /\ UNCHANGED <<products, prices, customers, subscriptions, Provider,
                 started, retrieved, written, lastOp>>

(***************************************************************************)
(* The caller takes the result or the propagated error.                    *)
(***************************************************************************)
Finished(i) == calls[i].pc \in {"done", "failed"}

Return(i) ==
  /\ Finished(i)
  /\ calls' = [calls EXCEPT ![i] = IdleCall]
  /\ UNCHANGED <<Store, Provider, started, retrieved, written>>

(***************************************************************************)
(* The provider: the state of a subscription changes on its own.           *)
(***************************************************************************)
SubscriptionChange(s, customer, version) ==
  /\ HasRow(stripeCustomers, customer)
  /\ stripeSubscriptions[s] # <<>> => stripeSubscriptions[s][1].customer = customer
  /\ stripeSubscriptions[s] # <<[customer |-> customer, version |-> version]>>
  /\ stripeSubscriptions' = [stripeSubscriptions EXCEPT ![s] =
       <<[customer |-> customer, version |-> version]>>]
  /\ UNCHANGED <<Store, stripeCustomers, calls, started, retrieved, written>>

Emails == {"", "ann@mail"}

KnownCustomerIds == {stripeCustomers[k].id : k \in 1..Len(stripeCustomers)}

Call(i, emails, before) ==
  \/ \E email \in emails, uuid \in LocalUsers :
        CallCreateOrRetrieveCustomer(i, email, uuid, before)
  \/ \E s \in SubscriptionIds, cid \in KnownCustomerIds \cup {UnknownCustomer},
        createAction \in BOOLEAN :
        CallManageSubscriptionStatusChange(i, s, cid, createAction, before)

CatalogCall(i, before) ==
  \/ \E product \in StripeProducts : CallUpsertProductRecord(i, product, before)
  \/ \E price \in StripePrices : CallUpsertPriceRecord(i, price, before)

Await(i) ==
  \E fault \in BOOLEAN :
    \/ CustomersSelect(i, fault)
    \/ StripeCustomersCreate(i, fault)
    \/ CustomersInsert(i, fault)
    \/ CustomersSelectByStripeId(i, fault)
    \/ StripeSubscriptionsRetrieve(i, fault)
    \/ SubscriptionsUpsert(i, fault)
    \/ StripeCustomersUpdate(i, fault)
    \/ UsersUpdate(i, fault)

CatalogAwait(i) ==
  \E fault \in BOOLEAN :
    \/ ProductsUpsert(i, fault)
    \/ PricesUpsert(i, fault)

ProviderStep(versions) ==
  \E s \in SubscriptionIds, customer \in KnownCustomerIds, version \in versions :
     SubscriptionChange(s, customer, version)

(***************************************************************************)
(* Concurrent delivery: resolver and synchronizer invocations interleave   *)
(* at their awaits.                                                        *)
(***************************************************************************)
ConcurrentEmails == {"ann@mail"}
ConcurrentVersions == {"v1", "v3"}

Next ==
  \/ \E i \in Procs : Call(i, ConcurrentEmails, <<>>) /\ UNCHANGED lastOp
  \/ \E i \in Procs : Await(i)
  \/ \E i \in Procs : Return(i) /\ UNCHANGED lastOp
  \/ ProviderStep(ConcurrentVersions) /\ UNCHANGED lastOp

Spec == Init /\ [][Next]_vars

(***************************************************************************)
(* Sequential delivery: one invocation at a time, each run to completion,  *)
(* the provider changing between invocations.  lastOp is the invocation    *)
(* that completed last, with the store it left, provided it succeeded and  *)
(* the provider has not changed since.                                     *)
(***************************************************************************)
SeqProc == CHOOSE i \in Procs : \A j \in Procs : i <= j

MirroredStore == <<products, prices, subscriptions, users>>

World ==
  [products |-> products, prices |-> prices, customers |-> customers,
   subscriptions |-> subscriptions, users |-> users,
   stripeCustomers |-> stripeCustomers,
   stripeSubscriptions |-> stripeSubscriptions]

SeqCall ==
  /\ AllIdle
  /\ \/ Call(SeqProc, Emails, <<World>>)
     \/ CatalogCall(SeqProc, <<World>>)
  /\ UNCHANGED lastOp

SeqAwait == Await(SeqProc) \/ CatalogAwait(SeqProc)

SeqReturn ==
  /\ Return(SeqProc)
  /\ lastOp' = IF calls[SeqProc].pc = "done"
               THEN [op |-> calls[SeqProc].op, args |-> calls[SeqProc].args,
                     store |-> MirroredStore]
               ELSE NoOp

SeqProviderStep ==
  /\ AllIdle
  /\ ProviderStep(SubscriptionVersions)
  /\ lastOp' = NoOp

SeqNext == SeqCall \/ SeqAwait \/ SeqReturn \/ SeqProviderStep

SeqSpec == Init /\ [][SeqNext]_vars

(***************************************************************************)
(* Properties.                                                             *)
(***************************************************************************)
SeqCallRec == calls[SeqProc]

Manages(c) == c.op = "manageSubscriptionStatusChange"
Resolves(c) == c.op = "createOrRetrieveCustomer"

\* The row of a table with the given id, as a sequence of the matching rows.
RowOf(table, id) == SelectRows(table, "id", id)

\* C1: sequential idempotence.  When an upsertProductRecord, upsertPriceRecord
\* or manageSubscriptionStatusChange invocation completes right after a
\* successful invocation of the same operation with the same arguments, the
\* provider unchanged in between, the products, prices, subscriptions and user
\* billing records are exactly what the first invocation left.
IdempotentUpserts ==
  ( /\ SeqCallRec.pc = "done"
    /\ SeqCallRec.op \in {"upsertProductRecord", "upsertPriceRecord",
                          "manageSubscriptionStatusChange"}
    /\ lastOp.op = SeqCallRec.op
    /\ lastOp.args = SeqCallRec.args )
  => MirroredStore = lastOp.store

\* A second, identical synchronization of a creation event has completed,
\* having rewritten the subscription row and the billing record.
IdempotentUpsertsWitness ==
  /\ SeqCallRec.pc = "done"
  /\ Manages(SeqCallRec)
  /\ lastOp.op = SeqCallRec.op
  /\ lastOp.args = SeqCallRec.args
  /\ {"subscriptions", "users"} \subseteq SeqCallRec.wrote

\* C3: convergence under reordering.  After any non-overlapping invocation
\* of manageSubscriptionStatusChange that completes, the Subscription row is
\* the translation of the provider's current state for the mapped user,
\* whatever row was stored before and whichever event (creation or update)
\* the invocation handles: the final row of v1;v2 and of v2;v1 is the same.
ReorderingConverges ==
  (SeqCallRec.pc = "done" /\ Manages(SeqCallRec)) =>
    LET sid == SeqCallRec.args.subscriptionId
        st  == stripeSubscriptions[sid][1]
        cs  == SelectRows(customers, "stripe_customer_id",
                          SeqCallRec.args.customerId)
    IN  /\ Len(cs) = 1
        /\ RowOf(subscriptions, sid) =
             <<SubscriptionData(StripeSubscription(sid, st.customer, st.version),
                                cs[1].id)>>

\* An update event has been processed after an earlier synchronization
\* stored a different row for the same subscription.
ReorderingConvergesWitness ==
  /\ SeqCallRec.pc = "done"
  /\ Manages(SeqCallRec)
  /\ ~SeqCallRec.args.createAction
  /\ SeqCallRec.fetchNo >= 2
  /\ RowOf(SeqCallRec.before[1].subscriptions, SeqCallRec.args.subscriptionId)
       # RowOf(subscriptions, SeqCallRec.args.subscriptionId)
  /\ RowOf(SeqCallRec.before[1].subscriptions, SeqCallRec.args.subscriptionId)
       # <<>>

\* C4 as stated: every manageSubscriptionStatusChange invocation that ends
\* in a propagated failure has written no Subscription row.
FailureWritesNoSubscription ==
  (SeqCallRec.pc = "failed" /\ Manages(SeqCallRec)) =>
    /\ "subscriptions" \notin SeqCallRec.wrote
    /\ subscriptions = SeqCallRec.before[1].subscriptions

BillingCalls == {"stripe.customers.update", "users.update"}

\* C4, amended: an invocation that fails at the customer lookup, at the
\* provider fetch or at the Subscription upsert has written no Subscription
\* row; an invocation that fails in billing propagation fails after the
\* upsert, with the complete translated row of the fetched subscription stored.
FailureBeforeUpsertWritesNoSubscription ==
  (SeqCallRec.pc = "failed" /\ Manages(SeqCallRec)) =>
    IF SeqCallRec.error \in BillingCalls
    THEN /\ "subscriptions" \in SeqCallRec.wrote
         /\ RowOf(subscriptions, SeqCallRec.args.subscriptionId) =
              <<SubscriptionData(SeqCallRec.subscription[1], SeqCallRec.uuid)>>
    ELSE /\ SeqCallRec.error \in {"customers.select",
                                  "stripe.subscriptions.retrieve",
                                  "subscriptions.upsert"}
         /\ "subscriptions" \notin SeqCallRec.wrote
         /\ subscriptions = SeqCallRec.before[1].subscriptions

\* The Subscription upsert itself has failed, after a successful fetch.
FailureBeforeUpsertWitness ==
  /\ SeqCallRec.pc = "failed"
  /\ Manages(SeqCallRec)
  /\ SeqCallRec.error = "subscriptions.upsert"
  /\ SeqCallRec.subscription # <<>>

\* C5: referential guard.  An invocation of manageSubscriptionStatusChange
\* whose customerId matches no Customer row fails at the lookup with the
\* lookup's error, issues no provider call and changes nothing in the store
\* or at the provider: no Subscription row is written.
ReferentialGuard ==
  ( /\ Manages(SeqCallRec)
    /\ SeqCallRec.pc # "start"
    /\ SelectRows(SeqCallRec.before[1].customers, "stripe_customer_id",
                  SeqCallRec.args.customerId) = <<>> )
  => /\ SeqCallRec.pc = "failed"
     /\ SeqCallRec.error = "customers.select"
     /\ SeqCallRec.issued = {"customers.select"}
     /\ SeqCallRec.wrote = {}
     /\ World = SeqCallRec.before[1]

\* The lookup ran without a storage fault against a non-empty Customer table
\* for a provider subscription that exists, and found no match.
ReferentialGuardWitness ==
  /\ Manages(SeqCallRec)
  /\ SeqCallRec.pc = "failed"
  /\ SeqCallRec.faulted = {}
  /\ SeqCallRec.args.customerId = UnknownCustomer
  /\ \E k \in 1..Len(customers) : Truthy(customers[k].stripe_customer_id)
  /\ stripeSubscriptions[SeqCallRec.args.subscriptionId] # <<>>

\* Some of name, phone and address is absent from the billing details.
LacksBillingDetail(details) ==
  details.name = Null \/ details.phone = Null \/ details.address = <<>>

\* C10: no-op precondition.  When manageSubscriptionStatusChange reaches
\* copyBillingDetailsToCustomer with a payment method whose billing details
\* lack name, phone or address, the invocation completes without failure,
\* with no provider customer update and no users update issued, and the
\* provider customers and the users table as they were before the invocation.
BillingNoOp ==
  ( /\ Manages(SeqCallRec)
    /\ "subscriptions" \in SeqCallRec.wrote
    /\ CopiesBillingDetails(SeqCallRec.args.createAction,
                            SeqCallRec.subscription[1], SeqCallRec.uuid)
    /\ LacksBillingDetail(
         SeqCallRec.subscription[1].default_payment_method[1].billing_details) )
  => /\ SeqCallRec.pc = "done"
     /\ SeqCallRec.issued \cap BillingCalls = {}
     /\ users = SeqCallRec.before[1].users
     /\ stripeCustomers = SeqCallRec.before[1].stripeCustomers

\* A creation event whose payment method lacks only the phone has completed.
BillingNoOpWitness ==
  /\ Manages(SeqCallRec)
  /\ SeqCallRec.pc = "done"
  /\ SeqCallRec.args.createAction
  /\ SeqCallRec.subscription # <<>>
  /\ SeqCallRec.subscription[1].default_payment_method # <<>>
  /\ LET d == SeqCallRec.subscription[1].default_payment_method[1].billing_details
     IN  d.phone = Null /\ d.name # Null /\ d.address # <<>>

\* The provider customers tagged with a local user.
Tagged(uuid) ==
  {k \in 1..Len(stripeCustomers) :
     stripeCustomers[k].metadata.supabaseUUID = uuid}

\* C8 as stated: retry safety.  When createOrRetrieveCustomer, re-run from
\* the start after failed invocations, completes with its own lookup
\* answered by the store, at most one provider customer is tagged with the
\* user.
RetrySafe ==
  ( /\ Resolves(SeqCallRec)
    /\ SeqCallRec.pc = "done"
    /\ "customers.select" \notin SeqCallRec.faulted )
  => Cardinality(Tagged(SeqCallRec.args.uuid)) <= 1

\* C2 as stated: freshness under concurrent delivery.  `written` is the
\* serial number of the fetch the stored row of a subscription comes from:
\* no upsert replaces the row by a different one that was fetched earlier.
StaleNeverOverwritesFresh ==
  [][\A s \in SubscriptionIds :
       written'[s] < written[s] => subscriptions' = subscriptions]_vars

\* C6 as stated: fast path.  Once the lookup of createOrRetrieveCustomer has
\* run against a Customer row that carries a non-empty stripe_customer_id,
\* the invocation has completed with that id and has issued no provider
\* create-customer call.
FastPath ==
  \A i \in Procs :
    ( /\ Resolves(calls[i])
      /\ calls[i].pc # "start"
      /\ Truthy(calls[i].hadId) )
    => /\ calls[i].pc = "done"
       /\ calls[i].result = calls[i].hadId
       /\ "stripe.customers.create" \notin calls[i].issued

\* C7 as stated: a createOrRetrieveCustomer invocation whose lookup failed
\* with a storage fault does not go on to create a provider customer.
LookupFaultCreatesNoCustomer ==
  \A i \in Procs :
    ( /\ Resolves(calls[i])
      /\ "customers.select" \in calls[i].faulted )
    => /\ calls[i].pc \notin {"create", "insert"}
       /\ "stripe.customers.create" \notin calls[i].issued
       /\ "stripe.customers" \notin calls[i].wrote

\* Two invocations for the same user that both hold the lookup's answer
\* "no stored id" and have not yet persisted.
Racing(i, j, pcs) ==
  /\ i # j
  /\ Resolves(calls[i]) /\ Resolves(calls[j])
  /\ calls[i].args.uuid = calls[j].args.uuid
  /\ calls[i].pc \in pcs /\ calls[j].pc \in pcs

\* C9: read-then-create race.  When two overlapping invocations of
\* createOrRetrieveCustomer for one user have both passed the lookup, the
\* provider create call of each stays enabled (nothing excludes the other),
\* and when both have made the call two distinct provider customers carry
\* the user's tag.
ReadThenCreateRace ==
  \A i, j \in Procs :
    /\ Racing(i, j, {"create"}) =>
         /\ ENABLED StripeCustomersCreate(i, FALSE)
         /\ ENABLED StripeCustomersCreate(j, FALSE)
    /\ Racing(i, j, {"insert"}) =>
         /\ calls[i].customer # calls[j].customer
         /\ Cardinality(Tagged(calls[i].args.uuid)) >= 2

\* Both racing invocations have created their provider customer while the
\* user had no Customer row.
ReadThenCreateRaceWitness ==
  \E i, j \in Procs :
    /\ Racing(i, j, {"insert"})
    /\ calls[i].faulted = {} /\ calls[j].faulted = {}
    /\ ~HasRow(customers, calls[i].args.uuid)
    /\ Cardinality(Tagged(calls[i].args.uuid)) = 2

(***************************************************************************)
(* Concurrent delivery of catalog events: upsertProductRecord and          *)
(* upsertPriceRecord invocations overlap.                                  *)
(***************************************************************************)
CatalogNext ==
  \/ \E i \in Procs : CatalogCall(i, <<>>) /\ UNCHANGED lastOp
  \/ \E i \in Procs : CatalogAwait(i)
  \/ \E i \in Procs : Return(i) /\ UNCHANGED lastOp

CatalogSpec == Init /\ [][CatalogNext]_vars

\* At most one row of the table for every id.
OneRowPerId(table) ==
  \A k, l \in 1..Len(table) : table[k].id = table[l].id => k = l

\* Invocation i applies its catalog write in this step.
Applies(i, op) ==
  /\ calls[i].op = op
  /\ calls[i].pc = "start"
  /\ calls'[i].pc = "done"

\* C11: catalog convergence.  However upsertProductRecord and
\* upsertPriceRecord invocations overlap, products and prices hold at most
\* one row per id; every applied write leaves the row of its id equal to the
\* data of its payload, and nothing else changes the tables: when all
\* invocations have completed the row is the payload applied last.
CatalogConverges ==
  /\ [](OneRowPerId(products) /\ OneRowPerId(prices))
  /\ [][ /\ \A i \in Procs :
              /\ Applies(i, "upsertProductRecord") =>
                   RowOf(products', calls[i].args.product.id) =
                     <<DefaultRow(ProductData(calls[i].args.product))>>
              /\ Applies(i, "upsertPriceRecord") =>
                   RowOf(prices', calls[i].args.price.id) =
                     <<DefaultRow(PriceData(calls[i].args.price))>>
         /\ products' # products =>
              \E i \in Procs : Applies(i, "upsertProductRecord")
         /\ prices' # prices =>
              \E i \in Procs : Applies(i, "upsertPriceRecord") ]_vars

\* Two overlapping invocations with different payloads for one product id
\* have both applied their write.
CatalogConvergesWitness ==
  \E i, j \in Procs :
    /\ i # j
    /\ calls[i].op = "upsertProductRecord" /\ calls[i].pc = "done"
    /\ calls[j].op = "upsertProductRecord" /\ calls[j].pc = "done"
    /\ calls[i].args.product.id = calls[j].args.product.id
    /\ calls[i].args.product # calls[j].args.product
    /\ Len(products) = 1

\* C12: subscription referential invariant.  In every state reached by
\* interleaved createOrRetrieveCustomer and manageSubscriptionStatusChange
\* invocations, subscriptions holds at most one row per subscription id and
\* the user_id of every row is the id of a row of customers.
SubscriptionsReferToCustomers ==
  /\ OneRowPerId(subscriptions)
  /\ \A k \in 1..Len(subscriptions) : HasRow(customers, subscriptions[k].user_id)

\* Two overlapping synchronizations of one subscription have both upserted.
SubscriptionsReferToCustomersWitness ==
  /\ Len(subscriptions) = 1
  /\ \E i, j \in Procs :
       /\ i # j
       /\ Manages(calls[i]) /\ Manages(calls[j])
       /\ "subscriptions" \in calls[i].wrote
       /\ "subscriptions" \in calls[j].wrote

\* C13: billing propagation is gated on creation.  A
\* manageSubscriptionStatusChange invocation issues the provider customer
\* update or the users update only if createAction is true and the fetched
\* subscription carries a default payment method; with createAction false
\* the users table and the provider customers stay as they were before it.
BillingGatedOnCreation ==
  Manages(SeqCallRec) =>
    /\ SeqCallRec.issued \cap BillingCalls # {} =>
         /\ SeqCallRec.args.createAction
         /\ SeqCallRec.subscription # <<>>
         /\ SeqCallRec.subscription[1].default_payment_method # <<>>
    /\ ~SeqCallRec.args.createAction =>
         /\ SeqCallRec.wrote \subseteq {"subscriptions"}
         /\ users = SeqCallRec.before[1].users
         /\ stripeCustomers = SeqCallRec.before[1].stripeCustomers

\* An update event whose subscription carries a payment method with full
\* billing details has completed.
BillingGatedOnCreationWitness ==
  /\ Manages(SeqCallRec)
  /\ SeqCallRec.pc = "done"
  /\ ~SeqCallRec.args.createAction
  /\ SeqCallRec.subscription # <<>>
  /\ SeqCallRec.subscription[1].default_payment_method # <<>>
  /\ ~MissingBillingDetails(
        SeqCallRec.subscription[1].default_payment_method[1].billing_details)

\* The provider customer of the payment method fetched by invocation c
\* carries the billing details of that payment method.
ProviderCarriesDetails(c) ==
  LET pm == c.subscription[1].default_payment_method[1]
  IN  \E k \in 1..Len(stripeCustomers) :
        /\ stripeCustomers[k].id = pm.customer
        /\ stripeCustomers[k].name = pm.billing_details.name
        /\ stripeCustomers[k].phone = pm.billing_details.phone
        /\ stripeCustomers[k].address = pm.billing_details.address

\* C14: billing propagation is a non-atomic two-step write.  The users
\* update is issued only after the provider customer update has been
\* applied; when the users update fails the invocation fails with the
\* provider customer still carrying the billing details and the users table
\* unwritten; a later manageSubscriptionStatusChange with createAction false
\* leaves the users table as it found it.
TwoStepBillingWrite ==
  Manages(SeqCallRec) =>
    /\ "users.update" \in SeqCallRec.issued =>
         /\ "stripe.customers" \in SeqCallRec.wrote
         /\ ProviderCarriesDetails(SeqCallRec)
    /\ "users.update" \in SeqCallRec.faulted =>
         /\ SeqCallRec.pc = "failed"
         /\ SeqCallRec.error = "users.update"
         /\ ProviderCarriesDetails(SeqCallRec)
         /\ users = SeqCallRec.before[1].users
    /\ (~SeqCallRec.args.createAction /\ SeqCallRec.pc \in {"done", "failed"}) =>
         users = SeqCallRec.before[1].users

\* After a creation event failed at the users update, an update event for the
\* same user has completed: the provider customer carries the billing details
\* and the user's record still has none.
TwoStepBillingWriteWitness ==
  /\ Manages(SeqCallRec)
  /\ SeqCallRec.pc = "done"
  /\ ~SeqCallRec.args.createAction
  /\ SeqCallRec.subscription # <<>>
  /\ SeqCallRec.subscription[1].default_payment_method # <<>>
  /\ ProviderCarriesDetails(SeqCallRec)
  /\ RowOf(users, SeqCallRec.uuid) = <<UserRow(SeqCallRec.uuid)>>

\* C15 as stated: resolution of a user whose Customer row exists with no
\* stripe_customer_id.  A createOrRetrieveCustomer invocation that meets no
\* storage or provider fault and has ended has completed, has created a
\* provider customer, and returns its id, which the user's Customer row
\* then carries.
ResolvesUnmappedRow ==
  ( /\ Resolves(SeqCallRec)
    /\ SeqCallRec.pc \in {"done", "failed"}
    /\ SeqCallRec.faulted = {}
    /\ HasRow(SeqCallRec.before[1].customers, SeqCallRec.args.uuid)
    /\ ~Truthy(StoredCustomerId(SeqCallRec.before[1].customers,
                                SeqCallRec.args.uuid)) )
  => /\ SeqCallRec.pc = "done"
     /\ "stripe.customers" \in SeqCallRec.wrote
     /\ Truthy(SeqCallRec.result)
     /\ StoredCustomerId(customers, SeqCallRec.args.uuid) = SeqCallRec.result

\* No two rows of customers carry the same non-null stripe_customer_id.
OneRowPerCustomerId ==
  \A k, l \in 1..Len(customers) :
    ( /\ Truthy(customers[k].stripe_customer_id)
      /\ customers[k].stripe_customer_id = customers[l].stripe_customer_id )
    => k = l

\* Invocation i of createOrRetrieveCustomer reaches its return in this step.
ReturnsId(i) ==
  /\ Resolves(calls[i])
  /\ calls[i].pc # "done"
  /\ calls'[i].pc = "done"

\* C16: the local mapping stays single-valued under the race.  In every
\* state, overlapping createOrRetrieveCustomer invocations included,
\* customers holds at most one row per id and no two rows share a
\* stripe_customer_id, and every invocation that returns an id returns the
\* stripe_customer_id stored in the user's row as it returns.
MappingSingleValued ==
  /\ [](OneRowPerId(customers) /\ OneRowPerCustomerId)
  /\ [][\A i \in Procs :
          ReturnsId(i) =>
            /\ Truthy(calls'[i].result)
            /\ calls'[i].result =
                 StoredCustomerId(customers', calls[i].args.uuid)]_vars

\* Of two racing invocations that both created a provider customer, one has
\* returned its id and the other has failed at the insert.
MappingSingleValuedWitness ==
  \E i, j \in Procs :
    /\ Racing(i, j, {"done", "failed"})
    /\ calls[i].pc = "done" /\ "customers" \in calls[i].wrote
    /\ calls[j].pc = "failed" /\ calls[j].error = "customers.insert"
    /\ calls[j].faulted = {}
    /\ calls[i].customer # calls[j].customer

NullableTimestampFields ==
  {"cancel_at", "canceled_at", "ended_at", "trial_start", "trial_end"}

\* C17 as stated: timestamp nullability.  In the row a
\* manageSubscriptionStatusChange invocation has upserted, each of cancel_at,
\* canceled_at, ended_at, trial_start and trial_end is null exactly when the
\* field is absent on the fetched subscription, and otherwise is the
\* translation of the provider's epoch seconds, the value 0 included.
TimestampNullability ==
  ( /\ Manages(SeqCallRec)
    /\ "subscriptions" \in SeqCallRec.wrote )
  => LET sub == SeqCallRec.subscription[1]
         row == RowOf(subscriptions, sub.id)[1]
     IN  \A f \in NullableTimestampFields :
           /\ row[f] = Null <=> sub[f] = <<>>
           /\ sub[f] # <<>> => row[f] = toISOString(toDateTime(sub[f][1]))

\* C18: price product reference.  The row a completed upsertPriceRecord
\* has written carries the provider's product id as product_id when the
\* price's product is a string reference, and the empty string, neither null
\* nor the embedded object's id, when the product is an expanded object.
PriceProductReference ==
  ( /\ SeqCallRec.op = "upsertPriceRecord"
    /\ SeqCallRec.pc = "done" )
  => LET price == SeqCallRec.args.price
         row   == RowOf(prices, price.id)
     IN  /\ Len(row) = 1
         /\ price.product.kind = "string" => row[1].product_id = price.product.id
         /\ price.product.kind = "object" =>
              /\ row[1].product_id = ""
              /\ row[1].product_id # Null
              /\ row[1].product_id # price.product.id

\* A price whose product is an expanded object has been upserted.
PriceProductReferenceWitness ==
  /\ SeqCallRec.op = "upsertPriceRecord"
  /\ SeqCallRec.pc = "done"
  /\ SeqCallRec.args.price.product.kind = "object"
  /\ Len(prices) = 1
  /\ prices[1].product_id = ""

(***************************************************************************)
(* Sequential delivery to a store that already mirrors another product,    *)
(* price and subscription, written by earlier invocations for those ids.   *)
(***************************************************************************)
OtherProduct ==
  [id |-> "prod_0", active |-> TRUE, name |-> "Basic",
   description |-> "basic plan", images |-> <<"img_0">>, metadata |-> "m0"]

OtherPrice ==
  [id |-> "price_0", product |-> [kind |-> "string", id |-> "prod_0"],
   active |-> TRUE, currency |-> "usd", nickname |-> "basic", type |-> "recurring",
   unit_amount |-> <<499>>,
   recurring |-> <<[interval |-> "year", interval_count |-> 1,
                    trial_period_days |-> <<>>]>>,
   metadata |-> "m0"]

FrameInit ==
  /\ products = Upsert(<<>>, ProductData(OtherProduct))
  /\ prices = Upsert(<<>>, PriceData(OtherPrice))
  /\ customers \in InitialCustomers
  /\ customers # <<>> /\ Truthy(customers[1].stripe_customer_id)
  /\ subscriptions =
       Upsert(<<>>, SubscriptionData(
                      StripeSubscription("sub_0", customers[1].stripe_customer_id, "v3"),
                      customers[1].id))
  /\ users = [k \in 1..Cardinality(LocalUsers) |-> UserRow(SeqOf(LocalUsers)[k])]
  /\ stripeCustomers = CustomersCreate(<<>>, CustomerData(customers[1].id, ""))
  /\ stripeSubscriptions = [s \in SubscriptionIds |-> <<>>]
  /\ calls = [i \in Procs |-> IdleCall]
  /\ started = 0
  /\ retrieved = 0
  /\ written = [s \in SubscriptionIds |-> 0]
  /\ lastOp = NoOp

FrameSpec == FrameInit /\ [][SeqNext]_vars

\* The rows of a table whose id is not the given one.
OtherRows(table, id) == {table[k] : k \in {l \in 1..Len(table) : table[l].id # id}}

\* C19: frame of the operations.  A manageSubscriptionStatusChange
\* invocation for a subscription id changes no subscriptions row with another
\* id and no products, prices or customers row; upsertProductRecord and
\* upsertPriceRecord change only the row with the given id in their own
\* table, issue no provider call, and leave customers, subscriptions, users
\* and the other catalog table unchanged.
OperationsFrame ==
  LET c == SeqCallRec IN
  c.pc # "idle" =>
    LET b == c.before[1] IN
    /\ Manages(c) =>
         /\ OtherRows(subscriptions, c.args.subscriptionId) =
              OtherRows(b.subscriptions, c.args.subscriptionId)
         /\ products = b.products
         /\ prices = b.prices
         /\ customers = b.customers
    /\ c.op = "upsertProductRecord" =>
         /\ OtherRows(products, c.args.product.id) =
              OtherRows(b.products, c.args.product.id)
         /\ c.issued \subseteq {"products.upsert"}
         /\ <<prices, customers, subscriptions, users>> =
              <<b.prices, b.customers, b.subscriptions, b.users>>
         /\ Provider = <<b.stripeCustomers, b.stripeSubscriptions>>
    /\ c.op = "upsertPriceRecord" =>
         /\ OtherRows(prices, c.args.price.id) =
              OtherRows(b.prices, c.args.price.id)
         /\ c.issued \subseteq {"prices.upsert"}
         /\ <<products, customers, subscriptions, users>> =
              <<b.products, b.customers, b.subscriptions, b.users>>
         /\ Provider = <<b.stripeCustomers, b.stripeSubscriptions>>

\* A synchronization has replaced the stored row of its subscription while
\* the store held another subscription, a product and a price.
OperationsFrameWitness ==
  /\ Manages(SeqCallRec)
  /\ SeqCallRec.pc = "done"
  /\ SeqCallRec.before # <<>>
  /\ HasRow(SeqCallRec.before[1].subscriptions, SeqCallRec.args.subscriptionId)
  /\ Len(subscriptions) = 2
  /\ products # <<>> /\ prices # <<>>

====
